---- MODULE Spec2Model ----
(***************************************************************************)
(* The session router of examples/cute-dogs-server/server.ts: the          *)
(* process-wide table `transports`, the POST/GET/DELETE handlers of /mcp,  *)
(* the callbacks the handlers hand to each transport, and the SIGINT       *)
(* handler.  The transport (StreamableHTTPServerTransport) and the server  *)
(* context are library objects: what they do inside an awaited call is an  *)
(* environment choice (resolve, reject, write a response, fire a           *)
(* callback); what the router does around them is translated from the      *)
(* handlers line by line.  Every await is a step boundary: between two     *)
(* steps of one handler any other handler or callback may run.             *)
(*                                                                         *)
(* Further sections model one tool call of the servers (ToolSpec), the     *)
(* widget bundles getServer reads and registers (ResourceSpec), and the    *)
(* dog-image widgets of show-dog-image.tsx and dog-image-view.tsx          *)
(* (WidgetSpec, WidgetFairSpec).                                           *)
(***************************************************************************)
EXTENDS Integers, Sequences, FiniteSets, TLC

\* ------------------------------------------------------------------ bounds
MaxReqs == 2         \* requests in flight at once
MaxTransports == 2   \* transports constructed in one run

Reqs == 1..MaxReqs
TIDs == 1..MaxTransports

\* ------------------------------------------------------------- JS values
\* req.headers["mcp-session-id"] when the header is missing
NoHeader == "<undefined>"
\* the header sent with an empty value
EmptyHeader == ""
\* a string that names a member every plain object inherits
InheritedKey == "constructor"
\* transport.sessionId before the transport has generated one
NoSessionId == "<undefined>"
\* the result of reading a key an object does not have
Undefined == 0
\* the value found under InheritedKey: truthy, and no transport
InheritedMember == 0 - 1

randomUUID_constant(n) == "uuid1"
\* the n-th identifier the generator hands out: distinct for distinct n
randomUUID(n) == "uuid" \o ToString(n)

UUIDs == {randomUUID(n) : n \in TIDs}
Headers == {NoHeader, EmptyHeader, InheritedKey} \cup UUIDs

\* JS truthiness of a header string and of a looked-up value
TruthyString(s) == s # NoHeader /\ s # EmptyHeader
Truthy(v) == v # Undefined

VARIABLES
  transports,     \* the table: own properties in insertion order, <<[sid, tr]>>
  transportObjs,  \* the transports constructed so far: their fields
  nextT,          \* how many transports have been constructed
  uuids,          \* how many identifiers the generator has handed out
  req,            \* the requests in flight: each handler's locals and position
  sd,             \* the SIGINT handler: its position in the for-in loop, and
                  \* history: the keys the table had at the signal (start),
                  \* the keys close() was called on (asked), the keys whose
                  \* close rejected and was logged (failed), the exit status
  closedSids,     \* history: identifiers registered when their transport's
                  \* onclose fired
  inserted,       \* history: what each onsessioninitialized call put in the
                  \* table, [sid, tr], and the transport `by` whose callback it was
  tc,             \* a tool call: the handler's arguments and position, the
                  \* fetches it issued, what the upstream did, its result
  html,           \* the widget bundles: what dist/ holds, the readFile calls
                  \* made, the content each server instance registered, and
                  \* history: the results resources/read returned
  w               \* a widget in the host's iframe: its React state, and the
                  \* callServerTool promise it awaits

routerVars == <<transports, transportObjs, nextT, uuids, req, sd, closedSids, inserted>>
vars == <<transports, transportObjs, nextT, uuids, req, sd, closedSids, inserted, tc, html, w>>

\* ------------------------------------------------------------ the table
Keys(tbl) == {tbl[i].sid : i \in DOMAIN tbl}

IndexOf(tbl, k) == CHOOSE i \in DOMAIN tbl : tbl[i].sid = k

Get_anyKey(tbl, k) ==
  IF k \in Keys(tbl) THEN tbl[1].tr
  ELSE IF k = InheritedKey THEN InheritedMember
  ELSE Undefined
\* transports[k]: an own property, else what the prototype chain holds
Get(tbl, k) ==
  IF k \in Keys(tbl) THEN tbl[IndexOf(tbl, k)].tr
  ELSE IF k = InheritedKey THEN InheritedMember
  ELSE Undefined

\* transports[k] = t: an existing key keeps its place, a new one goes last
Store(tbl, k, t) ==
  IF k \in Keys(tbl)
    THEN [tbl EXCEPT ![IndexOf(tbl, k)] = [sid |-> k, tr |-> t]]
    ELSE Append(tbl, [sid |-> k, tr |-> t])

\* delete transports[k]
Delete(tbl, k) ==
  LET Keep(e) == e.sid # k IN SelectSeq(tbl, Keep)

IsTransport(v) == v \in TIDs


\* ------------------------------------------------------------ requests
\* A request slot nobody uses. The fields of a request in flight:
\*   method, sessionId (the Mcp-Session-Id request header), isInit
\*   (isInitializeRequest(req.body)), transport (the handler's local),
\*   status/body/writes/sidOut (the response: res.headersSent is writes > 0),
\*   result (how the handler's promise ended), afterClose (history: the
\*   request named an identifier whose closure callback had already fired).
IdleReq ==
  [pc |-> "idle", method |-> "-", sessionId |-> NoHeader, isInit |-> FALSE,
   transport |-> Undefined, status |-> 0, body |-> "-", writes |-> 0,
   sidOut |-> NoHeader, result |-> "-", afterClose |-> FALSE]

NewReq(m, h, init) ==
  [IdleReq EXCEPT !.method = m, !.sessionId = h, !.isInit = init,
                  !.afterClose = h \in closedSids]

HeadersSent(q) == q.writes > 0

\* an arriving request takes the first slot that is free
Free(r) == req[r].pc = "idle" /\ \A s \in Reqs : s < r => req[s].pc # "idle"

\* res.status(code).json(...) / res.status(code).send(...), then return
Respond(q, code, body) ==
  [q EXCEPT !.status = code, !.body = body, !.writes = q.writes + 1,
            !.result = "returned", !.pc = "done"]

PostCatch_unguarded(q) ==
  [q EXCEPT !.status = 500, !.body = "jsonrpc-32603", !.writes = q.writes + 1,
            !.result = "caught", !.pc = "done"]
\* the catch block of mcpPostHandler
PostCatch(q) ==
  IF ~HeadersSent(q)
    THEN [q EXCEPT !.status = 500, !.body = "jsonrpc-32603",
                   !.writes = q.writes + 1, !.result = "caught", !.pc = "done"]
    ELSE [q EXCEPT !.result = "caught", !.pc = "done"]

\* the catch block of the DELETE handler
DeleteCatch(q) ==
  IF ~HeadersSent(q)
    THEN [q EXCEPT !.status = 500, !.body = "text-error",
                   !.writes = q.writes + 1, !.result = "caught", !.pc = "done"]
    ELSE [q EXCEPT !.result = "caught", !.pc = "done"]

\* the GET handler has no try: a rejection leaves the async handler
GetRejects(q) == [q EXCEPT !.result = "unhandled", !.pc = "done"]

\* an exception raised by (or while calling) transport.handleRequest
Rejected(q) ==
  CASE q.method = "POST" -> PostCatch(q)
    [] q.method = "DELETE" -> DeleteCatch(q)
    [] OTHER -> GetRejects(q)

\* `await v.handleRequest(...)` on the value a lookup returned: a value
\* that is no transport has no such method, and the call throws at once
CallHandleRequest(q, v) ==
  IF IsTransport(v)
    THEN [q EXCEPT !.transport = v, !.pc = "handleRequest"]
    ELSE Rejected(q)

\* ------------------------------------------------------------ callbacks
onsessioninitialized_shared(sessionId, t) == Store(transports, sessionId, nextT)
\* the callback given to the transport t at construction
onsessioninitialized(sessionId, t) == Store(transports, sessionId, t)

onclose_keeps(t) == transports
\* transport.onclose of the transport t: the table it leaves
onclose(t) ==
  LET sid == transportObjs[t].sessionId IN
  IF TruthyString(sid) /\ Truthy(Get(transports, sid))
    THEN Delete(transports, sid)
    ELSE transports

\* the identifiers under which t is registered when its onclose fires
RegisteredAs(t) ==
  {transports[i].sid : i \in {j \in DOMAIN transports : transports[j].tr = t}}

Entries(tbl) == {tbl[i] : i \in DOMAIN tbl}

Running == sd.phase # "exited"


\* ================================================================ tools
\* The tool handlers of getServer(), and those of the two variant servers.
\* A JS string is a sequence of characters; a word without "/", quote or
\* backslash in it ("error", "https:") stands as one character.
MaxSegs == 6          \* "/"-separated segments in an upstream image URL
MaxMsgLen == 2        \* characters in the message of a thrown Error
MaxCountArg == 32     \* largest count argument tried

MinCount == 1
MaxCount == 30
VariantMaxCount == 10
DefaultCount == 3

\* ---- values a JSON body can carry
Str(s) == [t |-> "string", s |-> s, items |-> <<>>]
Arr(items) == [t |-> "array", s |-> <<>>, items |-> items]
\* an object, known by its keys in order (every value an empty list)
Map(keys) == [t |-> "object", s |-> <<>>, items |-> keys]
Null == [t |-> "null", s |-> <<>>, items |-> <<>>]
Undef == [t |-> "undefined", s |-> <<>>, items |-> <<>>]

\* JS truthiness of such a value
TruthyValue(v) ==
  CASE v.t = "string" -> v.s # <<>>
    [] v.t \in {"array", "object"} -> TRUE
    [] OTHER -> FALSE

\* typeof v === "object"
TypeofObject(v) == v.t \in {"array", "object", "null"}

\* ---- String.prototype.split and Array.prototype.join
RECURSIVE SplitRec(_, _)
SplitRec(s, sep) ==
  IF s = <<>> THEN << <<>> >>
  ELSE LET rest == SplitRec(Tail(s), sep) IN
       IF Head(s) = sep THEN << <<>> >> \o rest
       ELSE << <<Head(s)>> \o Head(rest) >> \o Tail(rest)

split_skipEmpty(s, sep) ==
  LET NonEmpty(x) == x # <<>> IN SelectSeq(SplitRec(s, sep), NonEmpty)
\* s.split(sep): every segment, the empty ones too
split(s, sep) == SplitRec(s, sep)

RECURSIVE Join(_, _)
Join(segs, sep) ==
  IF segs = <<>> THEN <<>>
  ELSE IF Len(segs) = 1 THEN segs[1]
  ELSE segs[1] \o <<sep>> \o Join(Tail(segs), sep)

\* parts[i] of a JS array of strings: undefined past its end
At(parts, i) == IF i + 1 <= Len(parts) THEN Str(parts[i + 1]) ELSE Undef

\* ---- JSON.stringify, and reading a string back
RECURSIVE Escape(_)
Escape(s) ==
  IF s = <<>> THEN <<>>
  ELSE IF Head(s) \in {"\"", "\\"} THEN <<"\\", Head(s)>> \o Escape(Tail(s))
  ELSE <<Head(s)>> \o Escape(Tail(s))

JsonString_unescaped(s) == <<"\"">> \o s \o <<"\"">>
JsonString(s) == <<"\"">> \o Escape(s) \o <<"\"">>

JsonArray(items) ==
  <<"[">> \o Join([i \in DOMAIN items |-> JsonString(items[i])], ",") \o <<"]">>

JsonValue(v) ==
  CASE v.t = "string" -> JsonString(v.s)
    [] v.t = "array" -> JsonArray(v.items)
    [] v.t = "object" ->
         <<"{">> \o Join([i \in DOMAIN v.items |->
                            JsonString(v.items[i]) \o <<":", "[", "]">>], ",")
                 \o <<"}">>
    [] OTHER -> <<"null">>

\* one "key":value member; a member whose value is undefined is left out
Member(k, v) ==
  IF v.t = "undefined" THEN <<>> ELSE << JsonString(<<k>>) \o <<":">> \o JsonValue(v) >>

\* JSON.stringify of an object with these members
JsonObject(members) == <<"{">> \o Join(members, ",") \o <<"}">>

\* JSON.parse of a string literal whose opening quote is before position i:
\* the string and the position after its closing quote
RECURSIVE ReadString(_, _)
ReadString(text, i) ==
  IF i > Len(text) THEN [s |-> <<>>, next |-> 0]
  ELSE IF text[i] = "\"" THEN [s |-> <<>>, next |-> i + 1]
  ELSE IF text[i] = "\\" /\ i < Len(text)
    THEN LET r == ReadString(text, i + 2) IN [s |-> <<text[i + 1]>> \o r.s, next |-> r.next]
  ELSE LET r == ReadString(text, i + 1) IN [s |-> <<text[i]>> \o r.s, next |-> r.next]

\* JSON.parse(text).error for a text that is the object {"error":<string>};
\* NotThatObject when the text is anything else
NotThatObject == <<"<no error field>">>
ErrorFieldOf(text) ==
  IF Len(text) >= 7 /\ SubSeq(text, 1, 5) = <<"{", "\"", "error", "\"", ":">>
     /\ text[6] = "\""
    THEN LET r == ReadString(text, 7) IN
         IF r.next = Len(text) /\ text[Len(text)] = "}" THEN r.s ELSE NotThatObject
    ELSE NotThatObject

\* ---- thrown values
Err(msg) == [isError |-> TRUE, message |-> msg]
\* a thrown value that is no Error instance
NonError == [isError |-> FALSE, message |-> <<>>]

\* ---- results of a call
NoFields ==
  [message |-> Undef, breed |-> Undef, status |-> Undef, breeds |-> Undef,
   images |-> Undef]

NoResult ==
  [kind |-> "none", isError |-> FALSE, text |-> <<>>, hasStructured |-> FALSE,
   structuredContent |-> NoFields, thrown |-> NonError]

\* a helper returned v / threw e
Returns(v) == [threw |-> FALSE, value |-> v, thrown |-> NonError]
Throws(e) == [threw |-> TRUE, value |-> NoFields, thrown |-> e]

\* the handler's promise resolved with a success result
Success(text, fields) ==
  [NoResult EXCEPT !.kind = "returned", !.text = text, !.hasStructured = TRUE,
                   !.structuredContent = fields]
\* the handler's promise resolved with an error-flagged result
ErrorResult(text) == [NoResult EXCEPT !.kind = "returned", !.isError = TRUE, !.text = text]
\* the handler's promise rejected
Rejection(e) == [NoResult EXCEPT !.kind = "rejected", !.thrown = e]
\* the arguments failed the input schema: the handler never ran
Invalid == [NoResult EXCEPT !.kind = "invalid", !.isError = TRUE]

createErrorResult_alwaysFallback(error, message) ==
  ErrorResult(JsonObject(Member("error", Str(message))))
\* createErrorResult(error, message)
createErrorResult(error, message) ==
  ErrorResult(JsonObject(Member("error",
    Str(IF error.isError THEN error.message ELSE message))))

\* ---- the upstream: what `await fetch(...)` and `await response.json()` do
\* kind "fetchThrows" / "jsonThrows" with the thrown value, or "body" with
\* the parsed body; segs are the segments a URL payload was joined from
NullBody == [isNull |-> TRUE, status |-> "-", message |-> Undef]
Body(status, message) == [isNull |-> FALSE, status |-> status, message |-> message]
NoUpstream ==
  [kind |-> "none", thrown |-> NonError, data |-> NullBody, segs |-> <<>>]
FetchThrew(e) == [NoUpstream EXCEPT !.kind = "fetchThrows", !.thrown = e]
JsonThrew(e) == [NoUpstream EXCEPT !.kind = "jsonThrows", !.thrown = e]
Parsed(data, segs) == [NoUpstream EXCEPT !.kind = "body", !.data = data, !.segs = segs]

\* reading a property of a null body
NullTypeError == Err(<<"Cannot read properties of null">>)
NotAFunction == Err(<<"data.message.split is not a function">>)
KeysOfNullish == Err(<<"Cannot convert undefined or null to object">>)

\* Object.keys(v) for an array (its indices), an object, a string (its indices)
ObjectKeys(v) ==
  CASE v.t = "object" -> v.items
    [] v.t = "array" -> [i \in DOMAIN v.items |-> <<ToString(i - 1)>>]
    [] OTHER -> [i \in DOMAIN v.s |-> <<ToString(i - 1)>>]

\* ---- helpers of the server (u: what the upstream did after the fetch)
fetchRandomDogImage(u) ==
  IF u.kind # "body" THEN Throws(u.thrown)
  ELSE IF u.data.isNull THEN Throws(NullTypeError)
  ELSE IF u.data.status # "success" \/ ~TruthyValue(u.data.message)
    THEN Throws(Err(<<"Failed to fetch dog image">>))
  ELSE IF u.data.message.t # "string" THEN Throws(NotAFunction)
  ELSE Returns([NoFields EXCEPT
                  !.message = u.data.message,
                  !.breed = At(split(u.data.message.s, "/"), 4)])

fetchAllBreeds(u) ==
  IF u.kind # "body" THEN Throws(u.thrown)
  ELSE IF u.data.isNull THEN Throws(NullTypeError)
  ELSE IF u.data.status # "success" \/ ~TypeofObject(u.data.message)
    THEN Throws(Err(<<"Failed to fetch breeds">>))
  ELSE IF u.data.message.t = "null" THEN Throws(KeysOfNullish)
  ELSE Returns([NoFields EXCEPT !.breeds = Arr(ObjectKeys(u.data.message))])

fetchBreedImages(u) ==
  IF u.kind # "body" THEN Throws(u.thrown)
  ELSE IF u.data.isNull THEN Throws(NullTypeError)
  ELSE IF u.data.status # "success" \/ u.data.message.t # "array"
    THEN Throws(Err(<<"Failed to fetch images">>))
  ELSE Returns([NoFields EXCEPT !.images = u.data.message])

\* `${breed}` in a template literal
Interpolate(breed) == IF breed.t = "undefined" THEN <<"undefined">> ELSE breed.s

\* ---- the handlers of server.ts
ShowRandomDogImage(breed, u) ==
  LET r == fetchRandomDogImage(u) IN
  IF r.threw THEN createErrorResult(r.thrown, <<"Failed to fetch dog image">>)
  ELSE Success(
         JsonObject(
           Member("message",
                  Str(<<"Successfully fetched ">> \o Interpolate(breed) \o <<" image">>))
           \o Member("status", Str(<<"success">>))),
         [r.value EXCEPT !.status = Str(<<"success">>)])

ShowAllBreeds(u) ==
  LET r == fetchAllBreeds(u) IN
  IF r.threw THEN createErrorResult(r.thrown, <<"Failed to fetch breeds">>)
  ELSE Success(JsonObject(Member("breeds", r.value.breeds)), r.value)

GetMoreImages(breed, u) ==
  LET r == fetchBreedImages(u) IN
  IF r.threw THEN createErrorResult(r.thrown, <<"Failed to fetch images">>)
  ELSE Success(
         JsonObject(Member("breed", breed) \o Member("images", r.value.images)),
         [r.value EXCEPT !.breed = breed])

\* ---- the handlers of the variant servers
\* the catch block the variant handlers share
VariantCatch(error) ==
  ErrorResult(JsonObject(Member("error",
    Str(IF error.isError THEN error.message ELSE <<"Unknown error">>))))

\* show-dog-image / show-random-dog-image of the variants: the breed is
\* split off before the status is looked at
VariantShowDogImage(u) ==
  IF u.kind # "body" THEN VariantCatch(u.thrown)
  ELSE IF u.data.isNull \/ u.data.message.t \in {"null", "undefined"}
    THEN VariantCatch(NullTypeError)
  ELSE IF u.data.message.t # "string" THEN VariantCatch(NotAFunction)
  ELSE IF u.data.status = "success" /\ TruthyValue(u.data.message)
    THEN Success(
           JsonObject(Member("message", u.data.message)
                      \o Member("status", Str(<<u.data.status>>))),
           [NoFields EXCEPT !.message = u.data.message,
                            !.status = Str(<<u.data.status>>),
                            !.breed = At(split(u.data.message.s, "/"), 4)])
  ELSE ErrorResult(
         JsonObject(Member("error", Str(<<"Failed to fetch dog image">>))
                    \o Member("status", Str(<<u.data.status>>))))

\* show-all-breeds of the variant: no try around the fetch, no status test
VariantShowAllBreeds(u) ==
  IF u.kind # "body" THEN Rejection(u.thrown)
  ELSE IF u.data.isNull THEN Rejection(NullTypeError)
  ELSE IF u.data.message.t \in {"null", "undefined"} THEN Rejection(KeysOfNullish)
  ELSE Success(JsonObject(Member("breeds", Arr(ObjectKeys(u.data.message)))),
               [NoFields EXCEPT !.breeds = Arr(ObjectKeys(u.data.message))])

VariantGetMoreImages(breed, u) ==
  IF u.kind # "body" THEN VariantCatch(u.thrown)
  ELSE IF u.data.isNull THEN VariantCatch(NullTypeError)
  ELSE IF u.data.status = "success" /\ u.data.message.t = "array"
    THEN Success(
           JsonObject(Member("breed", breed) \o Member("images", u.data.message)),
           [NoFields EXCEPT !.breed = breed, !.images = u.data.message])
  ELSE ErrorResult(
         JsonObject(Member("error", Str(<<"Failed to fetch images">>))
                    \o Member("status", Str(<<u.data.status>>))
                    \o Member("message", u.data.message)))

\* ---- registration: which server registers which tool
Servers == {"server.ts", "part_000", "part_001"}

ToolsOf(server) ==
  CASE server = "server.ts" -> {"show-random-dog-image", "show-all-breeds", "get-more-images"}
    [] server = "part_000" -> {"show-dog-image"}
    [] OTHER -> {"show-random-dog-image", "show-all-breeds", "get-more-images"}

\* what the handler of the tool resolves or rejects with, given the upstream
Handle(server, tool, breed, u) ==
  CASE server = "server.ts" /\ tool = "show-random-dog-image" -> ShowRandomDogImage(breed, u)
    [] server = "server.ts" /\ tool = "show-all-breeds" -> ShowAllBreeds(u)
    [] server = "server.ts" /\ tool = "get-more-images" -> GetMoreImages(breed, u)
    [] tool \in {"show-dog-image", "show-random-dog-image"} -> VariantShowDogImage(u)
    [] tool = "show-all-breeds" -> VariantShowAllBreeds(u)
    [] OTHER -> VariantGetMoreImages(breed, u)

\* ---- input schemas
\* a count argument: left out, a string, or the number twice / 2
Omitted == [k |-> "omitted", twice |-> 0]
NotANumber == [k |-> "string", twice |-> 0]
Num(twice) == [k |-> "number", twice |-> twice]

CountArgs ==
  {Omitted, NotANumber} \cup {Num(x) : x \in (0 - 2)..(2 * MaxCountArg)}

\* z.number().int().min(lo).max(hi)
IntInRange(c, lo, hi) ==
  c.k = "number" /\ c.twice % 2 = 0 /\ c.twice \div 2 >= lo /\ c.twice \div 2 <= hi

\* z.number().int().min(1).max(hi).optional().default(3): does c pass
CountSchema(c, hi) == c.k = "omitted" \/ IntInRange(c, MinCount, hi)

\* the count the handler receives
CountValue(c) == IF c.k = "omitted" THEN DefaultCount ELSE c.twice \div 2

\* the largest count the get-more-images schema of the server lets through
MaxCountOf(server) == IF server = "server.ts" THEN MaxCount ELSE VariantMaxCount

\* z.string() / z.string().optional()
BreedSchema(tool, breed) ==
  IF tool = "get-more-images" THEN breed.t = "string"
  ELSE IF tool = "show-all-breeds" THEN TRUE
  ELSE breed.t \in {"string", "undefined"}

Validate(server, tool, breed, c) ==
  /\ BreedSchema(tool, breed)
  /\ tool = "get-more-images" => CountSchema(c, MaxCountOf(server))

\* ---- the inputs tried
BreedArgs == {Undef, Str(<<>>), Str(<<"hound">>)}

MsgChars == {"a", "\"", "\\"}
Msgs == UNION {[1..n -> MsgChars] : n \in 0..MaxMsgLen}
ThrownValues == {Err(m) : m \in Msgs} \cup {NonError}

UrlSegments == {<<>>, <<"x">>, <<"h", "d">>}
SegSeqs == UNION {[1..n -> UrlSegments] : n \in 1..MaxSegs}
\* https://x/breed/hound/9.jpg
ExampleSegs == << <<"https:">>, <<>>, <<"x">>, <<"breed">>, <<"hound">>, <<"9.jpg">> >>
ExampleUrl == Join(ExampleSegs, "/")

OtherPayloads ==
  {Null, Undef, Str(<<>>), Str(<<"Breed not found">>),
   Arr(<<>>), Arr(<<ExampleUrl>>), Arr(<<ExampleUrl, <<"x">> >>),
   Map(<<>>), Map(<< <<"hound">> >>), Map(<< <<"hound">>, <<"pug">> >>)}
Statuses == {"success", "error"}

SingleImageTools == {"show-random-dog-image", "show-dog-image"}

\* ---- one tool call
IdleCall ==
  [pc |-> "idle", server |-> "-", tool |-> "-", breed |-> Undef, c |-> Omitted,
   count |-> 0, fetches |-> 0, u |-> NoUpstream, result |-> NoResult]


\* ------------------------------------------------------ widget bundles
MaxVersions == 2     \* builds of dist/ during one run
MaxServers == 3      \* server instances created in one run

Bundles == {"show-dog-image", "show-all-breeds"}
Versions == 1..MaxVersions
NoHtml == [disk |-> [b \in Bundles |-> 1], loads |-> 0, servers |-> <<>>, reads |-> {}]

\* ------------------------------------------------------------ the widgets
MaxImages == 2       \* images in one get-more-images response
MaxShown == 6        \* images shown before the button is left alone

\* null, undefined or "": what the render's `dogImageUrl && dogBreed` and
\* the handler's `!breed` take as absent
NoUrl == "-"
NoBreed == "-"
\* The fields of a widget: which component is mounted, its useState cells
\* (imageCount is a cell in ShowDogImageApp and moreImages.length in
\* DogImageViewApp), and `call`, the breed the pending callServerTool was
\* issued for.  An image is written as the breed it was fetched for.
Unmounted == [app |-> "-", dogImageUrl |-> NoUrl, dogBreed |-> NoBreed,
              moreImages |-> <<>>, loadingMoreImages |-> FALSE,
              hasFetchedMoreImages |-> FALSE, imageCount |-> 0,
              call |-> NoBreed]

\* ------------------------------------------------------------- Init
NoTransport == [made |-> FALSE, sessionId |-> NoSessionId]

Init ==
  /\ transports = <<>>
  /\ transportObjs = [t \in TIDs |-> NoTransport]
  /\ nextT = 0
  /\ uuids = 0
  /\ req = [r \in Reqs |-> IdleReq]
  /\ sd = [phase |-> "off", keys |-> <<>>, cur |-> NoSessionId, tr |-> Undefined,
           start |-> <<>>, asked |-> <<>>, failed |-> {}, exitCode |-> <<>>]
  /\ closedSids = {}
  /\ inserted = {}
  /\ tc = IdleCall
  /\ html = NoHtml
  /\ w = Unmounted

\* --------------------------------------------------- POST /mcp
\* which arm of mcpPostHandler's if/else-if/else a request takes
PostBranch(h, init) ==
  IF TruthyString(h) /\ Truthy(Get(transports, h)) THEN "existing"
  ELSE IF ~TruthyString(h) /\ init THEN "initialize"
  ELSE "reject"

\* a POST naming something the table lookup finds: forwarded
PostExisting(r, h, init) ==
  /\ Running /\ Free(r)
  /\ PostBranch(h, init) = "existing"
  /\ req' = [req EXCEPT ![r] =
               CallHandleRequest(NewReq("POST", h, init), Get(transports, h))]
  /\ UNCHANGED <<tc, html, w, transports, transportObjs, nextT, uuids, sd, closedSids, inserted>>

\* an initialization POST: the transport is constructed with its two
\* callbacks, and the handler suspends in `await getServer()`
PostInitialize(r, h, init) ==
  /\ Running /\ Free(r)
  /\ PostBranch(h, init) = "initialize"
  /\ nextT < MaxTransports
  /\ nextT' = nextT + 1
  /\ transportObjs' = [transportObjs EXCEPT ![nextT + 1] =
                         [made |-> TRUE, sessionId |-> NoSessionId]]
  /\ req' = [req EXCEPT ![r] =
               [NewReq("POST", h, init) EXCEPT !.transport = nextT + 1,
                                               !.pc = "getServer"]]
  /\ UNCHANGED <<tc, html, w, transports, uuids, sd, closedSids, inserted>>

\* an initialization POST whose transport construction throws
PostConstructThrows(r, h, init) ==
  /\ Running /\ Free(r)
  /\ PostBranch(h, init) = "initialize"
  /\ req' = [req EXCEPT ![r] = PostCatch(NewReq("POST", h, init))]
  /\ UNCHANGED <<tc, html, w, transports, transportObjs, nextT, uuids, sd, closedSids, inserted>>

\* the else arm: 400 with JSON-RPC error -32000
PostReject(r, h, init) ==
  /\ Running /\ Free(r)
  /\ PostBranch(h, init) = "reject"
  /\ req' = [req EXCEPT ![r] =
               Respond(NewReq("POST", h, init), 400, "jsonrpc-32000")]
  /\ UNCHANGED <<tc, html, w, transports, transportObjs, nextT, uuids, sd, closedSids, inserted>>

\* `await getServer()` settles: the context is built, or loadHtml rejected
GetServerSettles(r, ok) ==
  /\ Running /\ req[r].pc = "getServer"
  /\ req' = [req EXCEPT ![r] =
               IF ok THEN [req[r] EXCEPT !.pc = "connect"] ELSE PostCatch(req[r])]
  /\ UNCHANGED <<tc, html, w, transports, transportObjs, nextT, uuids, sd, closedSids, inserted>>

\* `await server.connect(transport)` settles; on success the handler calls
\* transport.handleRequest and suspends in it
ConnectSettles(r, ok) ==
  /\ Running /\ req[r].pc = "connect"
  /\ req' = [req EXCEPT ![r] =
               IF ok THEN [req[r] EXCEPT !.pc = "handleRequest"]
                     ELSE PostCatch(req[r])]
  /\ UNCHANGED <<tc, html, w, transports, transportObjs, nextT, uuids, sd, closedSids, inserted>>

\* --------------------------------------------------- GET and DELETE /mcp
\* the guard both handlers start with
KnownSession(h) == TruthyString(h) /\ Truthy(Get(transports, h))

\* GET /mcp
GetArrives(r, h) ==
  /\ Running /\ Free(r)
  /\ req' = [req EXCEPT ![r] =
               IF ~KnownSession(h)
                 THEN Respond(NewReq("GET", h, FALSE), 400, "text-invalid")
                 ELSE CallHandleRequest(NewReq("GET", h, FALSE), Get(transports, h))]
  /\ UNCHANGED <<tc, html, w, transports, transportObjs, nextT, uuids, sd, closedSids, inserted>>

DeleteArrives_removes(r, h) ==
  /\ Running /\ Free(r)
  /\ req' = [req EXCEPT ![r] =
               IF ~KnownSession(h)
                 THEN Respond(NewReq("DELETE", h, FALSE), 400, "text-invalid")
                 ELSE CallHandleRequest(NewReq("DELETE", h, FALSE), Get(transports, h))]
  /\ transports' = Delete(transports, h)
  /\ UNCHANGED <<tc, html, w, transportObjs, nextT, uuids, sd, closedSids, inserted>>
\* DELETE /mcp
DeleteArrives(r, h) ==
  /\ Running /\ Free(r)
  /\ req' = [req EXCEPT ![r] =
               IF ~KnownSession(h)
                 THEN Respond(NewReq("DELETE", h, FALSE), 400, "text-invalid")
                 ELSE CallHandleRequest(NewReq("DELETE", h, FALSE), Get(transports, h))]
  /\ UNCHANGED <<tc, html, w, transports, transportObjs, nextT, uuids, sd, closedSids, inserted>>


\* --------------------------------- inside transport.handleRequest
\* The transport handles an initialization request: it draws its session
\* identifier from sessionIdGenerator and fires onsessioninitialized.
TransportInitializes(r) ==
  /\ Running /\ req[r].pc = "handleRequest"
  /\ req[r].method = "POST" /\ req[r].isInit /\ ~HeadersSent(req[r])
  /\ transportObjs[req[r].transport].sessionId = NoSessionId
  /\ LET t == req[r].transport
         sid == randomUUID(uuids + 1) IN
       /\ uuids' = uuids + 1
       /\ transportObjs' = [transportObjs EXCEPT ![t].sessionId = sid]
       /\ transports' = onsessioninitialized(sid, t)
       /\ inserted' = inserted \cup
            {[sid |-> e.sid, tr |-> e.tr, by |-> t] :
               e \in Entries(onsessioninitialized(sid, t)) \ Entries(transports)}
  /\ UNCHANGED <<tc, html, w, nextT, req, sd, closedSids>>

\* The transport starts the response (status line and headers, the
\* Mcp-Session-Id header among them once it has an identifier). Status 200
\* with body "transport" stands for whatever the transport answers: the
\* router writes 400 and 500 only.
TransportResponds(r) ==
  /\ Running /\ req[r].pc = "handleRequest"
  /\ ~HeadersSent(req[r])
  /\ req' = [req EXCEPT ![r] =
               [req[r] EXCEPT !.status = 200, !.body = "transport",
                              !.writes = req[r].writes + 1,
                              !.sidOut = transportObjs[req[r].transport].sessionId]]
  /\ UNCHANGED <<tc, html, w, transports, transportObjs, nextT, uuids, sd, closedSids, inserted>>

\* `await transport.handleRequest(...)` settles: it resolves once the
\* transport has responded, or it rejects at any point
HandleRequestSettles(r, ok) ==
  /\ Running /\ req[r].pc = "handleRequest"
  /\ ok => HeadersSent(req[r])
  /\ req' = [req EXCEPT ![r] =
               IF ok THEN [req[r] EXCEPT !.result = "returned", !.pc = "done"]
                     ELSE Rejected(req[r])]
  /\ UNCHANGED <<tc, html, w, transports, transportObjs, nextT, uuids, sd, closedSids, inserted>>

\* The transport t signals closure (a terminated session, a dropped
\* client): its onclose callback runs.
TransportCloses(t) ==
  /\ Running /\ transportObjs[t].made
  /\ transports' = onclose(t)
  /\ closedSids' = closedSids \cup RegisteredAs(t)
  /\ UNCHANGED <<tc, html, w, transportObjs, nextT, uuids, req, sd, inserted>>

\* the response is complete and the slot serves the next request
Recycle(r) ==
  /\ Running /\ req[r].pc = "done"
  /\ req' = [req EXCEPT ![r] = IdleReq]
  /\ UNCHANGED <<tc, html, w, transports, transportObjs, nextT, uuids, sd, closedSids, inserted>>

\* --------------------------------------------------- SIGINT
\* the keys for-in still visits: a key deleted before its turn is skipped
StillThere(keys, tbl) ==
  LET Live(k) == k \in Keys(tbl) IN SelectSeq(keys, Live)

\* The handler runs on from where it stands, with the table tbl, up to its
\* next suspension: the loop takes its next key, calls close() on the
\* transport found under it and suspends in the await; or no key is left
\* and process.exit(0) ends the process.
LoopStep(s, tbl) ==
  LET live == StillThere(s.keys, tbl) IN
  IF live = <<>>
    THEN [s EXCEPT !.phase = "exited", !.keys = <<>>, !.cur = NoSessionId,
                   !.tr = Undefined, !.exitCode = <<0>>]
    ELSE [s EXCEPT !.phase = "closing", !.cur = Head(live),
                   !.tr = Get(tbl, Head(live)), !.keys = Tail(live),
                   !.asked = Append(s.asked, Head(live))]

\* The signal arrives: for-in fixes the keys it will visit, in insertion
\* order (a key added while the loop runs is not among them), and the
\* handler runs to its first await, or to the exit when the table is empty.
Sigint ==
  /\ sd.phase = "off"
  /\ sd' = LoopStep([sd EXCEPT
                       !.keys = [i \in DOMAIN transports |-> transports[i].sid],
                       !.start = [i \in DOMAIN transports |-> transports[i].sid]],
                    transports)
  /\ UNCHANGED <<tc, html, w, transports, transportObjs, nextT, uuids, req, closedSids, inserted>>

\* the table after `await transports[sessionId].close()` has settled
AfterClose(outcome) ==
  IF outcome = "resolved" THEN Delete(onclose(sd.tr), sd.cur)
  ELSE IF outcome = "rejectedAfter" THEN onclose(sd.tr)
  ELSE transports

ShutdownCloseSettles_aborts(outcome) ==
  /\ sd.phase = "closing"
  /\ transports' = AfterClose(outcome)
  /\ closedSids' = IF outcome \in {"resolved", "rejectedAfter"}
                     THEN closedSids \cup RegisteredAs(sd.tr)
                     ELSE closedSids
  /\ sd' = IF outcome = "resolved"
             THEN LoopStep(sd, AfterClose(outcome))
             ELSE LoopStep([sd EXCEPT !.keys = <<>>,
                                      !.failed = sd.failed \cup {sd.cur}],
                           AfterClose(outcome))
  /\ UNCHANGED <<tc, html, w, transportObjs, nextT, uuids, req, inserted>>
\* close() settles. A close that resolves has fired onclose; one that
\* rejects did so before or after firing it. After a resolved close the
\* loop deletes the entry itself; a rejected one is caught inside the loop
\* body, which logs the identifier (sd.failed). Either way the loop goes on
\* to its next key in the same turn.
ShutdownCloseSettles(outcome) ==
  /\ sd.phase = "closing"
  /\ transports' = AfterClose(outcome)
  /\ closedSids' = IF outcome \in {"resolved", "rejectedAfter"}
                     THEN closedSids \cup RegisteredAs(sd.tr)
                     ELSE closedSids
  /\ sd' = IF outcome = "resolved"
             THEN LoopStep(sd, AfterClose(outcome))
             ELSE LoopStep([sd EXCEPT !.failed = sd.failed \cup {sd.cur}],
                           AfterClose(outcome))
  /\ UNCHANGED <<tc, html, w, transportObjs, nextT, uuids, req, inserted>>

\* ------------------------------------------------------------- Next
Next ==
  \/ \E r \in Reqs, h \in Headers, init \in BOOLEAN : PostExisting(r, h, init)
  \/ \E r \in Reqs, h \in Headers, init \in BOOLEAN : PostInitialize(r, h, init)
  \/ \E r \in Reqs, h \in Headers, init \in BOOLEAN : PostConstructThrows(r, h, init)
  \/ \E r \in Reqs, h \in Headers, init \in BOOLEAN : PostReject(r, h, init)
  \/ \E r \in Reqs, ok \in BOOLEAN : GetServerSettles(r, ok)
  \/ \E r \in Reqs, ok \in BOOLEAN : ConnectSettles(r, ok)
  \/ \E r \in Reqs, h \in Headers : GetArrives(r, h)
  \/ \E r \in Reqs, h \in Headers : DeleteArrives(r, h)
  \/ \E r \in Reqs : TransportInitializes(r)
  \/ \E r \in Reqs : TransportResponds(r)
  \/ \E r \in Reqs, ok \in BOOLEAN : HandleRequestSettles(r, ok)
  \/ \E t \in TIDs : TransportCloses(t)
  \/ \E r \in Reqs : Recycle(r)
  \/ Sigint
  \/ \E o \in {"resolved", "rejectedBefore", "rejectedAfter"} : ShutdownCloseSettles(o)

Spec == Init /\ [][Next]_vars

TypeOK ==
  /\ \A i \in DOMAIN transports :
       transports[i].sid \in UUIDs /\ transports[i].tr \in TIDs
  /\ nextT \in 0..MaxTransports /\ uuids \in 0..MaxTransports
  /\ \A r \in Reqs : req[r].writes \in 0..2 /\ req[r].status \in {0, 200, 400, 500}
  /\ sd.phase \in {"off", "closing", "exited"}
  /\ closedSids \subseteq UUIDs


\* ------------------------------------------------------- tool calls
\* tools/call with arguments the schema refuses: the handler is not run
CallRejected(server, tool, breed, c) ==
  /\ tc.pc = "idle" /\ tool \in ToolsOf(server)
  /\ ~Validate(server, tool, breed, c)
  /\ tc' = [IdleCall EXCEPT !.pc = "done", !.server = server, !.tool = tool,
                            !.breed = breed, !.c = c, !.result = Invalid]
  /\ UNCHANGED <<routerVars, html, w>>

\* tools/call with arguments the schema accepts: the handler runs up to
\* its `await fetch(apiUrl)`
CallAccepted(server, tool, breed, c) ==
  /\ tc.pc = "idle" /\ tool \in ToolsOf(server)
  /\ Validate(server, tool, breed, c)
  /\ tool # "get-more-images" => c = Omitted
  /\ tool = "show-all-breeds" => breed = Undef
  /\ tc' = [IdleCall EXCEPT !.pc = "fetch", !.server = server, !.tool = tool,
                            !.breed = breed, !.c = c,
                            !.count = IF tool = "get-more-images" THEN CountValue(c) ELSE 0,
                            !.fetches = 1]
  /\ UNCHANGED <<routerVars, html, w>>

Settle_retries(u) ==
  tc' = IF Handle(tc.server, tc.tool, tc.breed, u).isError
          THEN [tc EXCEPT !.pc = "fetch", !.fetches = tc.fetches + 1]
          ELSE [tc EXCEPT !.pc = "done", !.u = u,
                          !.result = Handle(tc.server, tc.tool, tc.breed, u)]
\* the handler's promise settles with what Handle gives for the upstream u:
\* no handler and no helper calls fetch a second time
Settle(u) ==
  tc' = [tc EXCEPT !.pc = "done", !.u = u,
                   !.result = Handle(tc.server, tc.tool, tc.breed, u)]

\* fetch rejects (network error)
FetchRejects(e) ==
  /\ tc.pc = "fetch"
  /\ Settle(FetchThrew(e))
  /\ UNCHANGED <<routerVars, html, w>>

\* fetch resolves with a response; the handler awaits response.json()
FetchResolves ==
  /\ tc.pc = "fetch"
  /\ tc' = [tc EXCEPT !.pc = "json"]
  /\ UNCHANGED <<routerVars, html, w>>

\* response.json() rejects: the body is no JSON
JsonRejects(e) ==
  /\ tc.pc = "json"
  /\ Settle(JsonThrew(e))
  /\ UNCHANGED <<routerVars, html, w>>

\* response.json() resolves with a body whose message is an image URL
JsonResolvesUrl(status, segs) ==
  /\ tc.pc = "json" /\ tc.tool \in SingleImageTools
  /\ Settle(Parsed(Body(status, Str(Join(segs, "/"))), segs))
  /\ UNCHANGED <<routerVars, html, w>>

\* response.json() resolves with any other body (a string in it has no "/")
JsonResolves(data) ==
  /\ tc.pc = "json"
  /\ Settle(Parsed(data, IF data.message.t = "string" THEN <<data.message.s>> ELSE <<>>))
  /\ UNCHANGED <<routerVars, html, w>>

\* the result went to the client; the next call can start
CallDone ==
  /\ tc.pc = "done"
  /\ tc' = IdleCall
  /\ UNCHANGED <<routerVars, html, w>>

ToolNext ==
  \/ \E s \in Servers : \E t \in ToolsOf(s), b \in BreedArgs, c \in CountArgs :
       CallRejected(s, t, b, c)
  \/ \E s \in Servers : \E t \in ToolsOf(s), b \in BreedArgs, c \in CountArgs :
       CallAccepted(s, t, b, c)
  \/ \E e \in ThrownValues : FetchRejects(e)
  \/ FetchResolves
  \/ \E e \in ThrownValues : JsonRejects(e)
  \/ \E st \in Statuses, segs \in SegSeqs \cup {ExampleSegs} : JsonResolvesUrl(st, segs)
  \/ \E st \in Statuses, m \in OtherPayloads : JsonResolves(Body(st, m))
  \/ JsonResolves(NullBody)
  \/ CallDone

ToolSpec == Init /\ [][ToolNext]_vars


\* ================================================================ claims
\* a request took a slot in this step
Arrives(r) == req[r].pc = "idle" /\ req'[r].pc # "idle"

\* the request went down the initialization arm and got a transport
Initializing(q) ==
  q.method = "POST" /\ ~TruthyString(q.sessionId) /\ q.isInit /\ IsTransport(q.transport)

\* C1: the table holds at most one entry per session identifier, and no
\* two transports own the same session identifier.
C1_OneTransportPerSession ==
  /\ \A i, j \in DOMAIN transports :
       transports[i].sid = transports[j].sid => i = j
  /\ \A t1, t2 \in TIDs :
       ( /\ transportObjs[t1].sessionId # NoSessionId
         /\ transportObjs[t1].sessionId = transportObjs[t2].sessionId ) => t1 = t2

\* two sessions are registered at once, each under its own transport
C1_Witness ==
  /\ Len(transports) = 2
  /\ transports[1].tr # transports[2].tr

\* C2 (as claimed): a POST that neither names a session in the table nor
\* is an initialization request without session header gets 400 with
\* JSON-RPC error -32000, and the step changes no table entry and
\* constructs no transport.
C2_PostRejectedUnlessKnownOrInit ==
  [][\A r \in Reqs :
       ( /\ Arrives(r) /\ req'[r].method = "POST"
         /\ req'[r].sessionId \notin Keys(transports)
         /\ ~(req'[r].sessionId = NoHeader /\ req'[r].isInit) )
       => ( /\ req'[r].status = 400 /\ req'[r].body = "jsonrpc-32000"
            /\ transports' = transports /\ nextT' = nextT )]_vars

\* C3 (as claimed): a GET or DELETE whose session identifier is not in
\* the table gets 400 with the plain-text body, is forwarded to nothing,
\* and leaves the table as it was.
C3_GetDeleteUnknownIs400 ==
  [][\A r \in Reqs :
       ( /\ Arrives(r) /\ req'[r].method \in {"GET", "DELETE"}
         /\ req'[r].sessionId \notin Keys(transports) )
       => ( /\ req'[r].status = 400 /\ req'[r].body = "text-invalid"
            /\ req'[r].pc = "done" /\ req'[r].transport = Undefined
            /\ transports' = transports )]_vars


\* what the readiness callback of r's transport has put into the table
InsertedBy(t) == {e \in inserted : e.by = t}

\* C4 (as claimed): every initialization POST without session header
\* (whose transport was constructed) ends with exactly one table entry
\* produced by it, keyed by the identifier of its Mcp-Session-Id response
\* header, also when building the context, connecting or forwarding failed.
C4_InitAlwaysProducesEntry ==
  \A r \in Reqs :
    ( /\ req[r].pc = "done" /\ req[r].method = "POST"
      /\ req[r].sessionId = NoHeader /\ req[r].isInit
      /\ IsTransport(req[r].transport) )
    => ( /\ Cardinality(InsertedBy(req[r].transport)) = 1
         /\ \A e \in InsertedBy(req[r].transport) : e.sid = req[r].sidOut )

\* C4 (amended): an initialization POST produces at most one table entry,
\* that of its own transport under the transport's session identifier;
\* none while the context is built or connected; and a response that
\* carries Mcp-Session-Id names exactly that entry's key.
C4_InitProducesOwnEntryOnceConfirmed ==
  \A r \in Reqs :
    Initializing(req[r]) =>
      LET t == req[r].transport IN
        /\ Cardinality(InsertedBy(t)) <= 1
        /\ \A e \in InsertedBy(t) :
             e.tr = t /\ e.sid = transportObjs[t].sessionId
        /\ req[r].pc \in {"getServer", "connect"} => InsertedBy(t) = {}
        /\ req[r].sidOut # NoHeader =>
             InsertedBy(t) = {[sid |-> req[r].sidOut, tr |-> t, by |-> t]}

\* an initialization POST has returned with an Mcp-Session-Id header while
\* another session was registered before it
C4_Witness ==
  \E r \in Reqs :
    /\ Initializing(req[r]) /\ req[r].pc = "done" /\ req[r].result = "returned"
    /\ req[r].sidOut # NoHeader
    /\ Len(transports) = 2 /\ transports[2].sid = req[r].sidOut

\* C5: a transport is in the table only once its own onsessioninitialized
\* callback has fired, and every table entry was put there by such a
\* callback.
C5_RegisteredOnlyByReadyCallback ==
  /\ \A t \in TIDs :
       InsertedBy(t) = {} => \A i \in DOMAIN transports : transports[i].tr # t
  /\ \A e \in Entries(transports) :
       \E f \in inserted : f.sid = e.sid /\ f.tr = e.tr

\* a constructed transport is being forwarded its initialization request,
\* unconfirmed, while another session is already registered
C5_Witness ==
  \E r \in Reqs :
    /\ Initializing(req[r]) /\ req[r].pc = "handleRequest"
    /\ transportObjs[req[r].transport].sessionId = NoSessionId
    /\ Len(transports) = 1

\* C6: once the closure callback of a registered transport has fired, the
\* table has no entry for its identifier, and a GET that names it
\* afterwards is answered 400.
C6_ClosedSessionIsGone ==
  /\ closedSids \cap Keys(transports) = {}
  /\ \A r \in Reqs :
       (req[r].method = "GET" /\ req[r].afterClose)
       => (req[r].pc = "done" /\ req[r].status = 400 /\ req[r].body = "text-invalid")

\* a GET named a session after its closure callback had fired
C6_Witness ==
  \E r \in Reqs :
    req[r].method = "GET" /\ req[r].afterClose /\ req[r].status = 400

\* C7: a POST or GET that names a registered session is forwarded to the
\* transport registered under that identifier, and no step of such a
\* request inserts into or removes from the table.
C7_ExistingSessionDispatch ==
  [][\A r \in Reqs :
       /\ ( /\ Arrives(r) /\ req'[r].method \in {"POST", "GET"}
            /\ req'[r].sessionId \in Keys(transports) )
          => ( /\ req'[r].pc = "handleRequest"
               /\ [sid |-> req'[r].sessionId, tr |-> req'[r].transport]
                    \in Entries(transports)
               /\ transports' = transports )
       /\ ( /\ req'[r] # req[r] /\ req'[r].method \in {"POST", "GET"}
            /\ TruthyString(req'[r].sessionId) )
          => transports' = transports]_vars

\* a GET for the second of two registered sessions is being forwarded
C7_Witness ==
  \E r \in Reqs :
    /\ req[r].method = "GET" /\ req[r].pc = "handleRequest"
    /\ Len(transports) = 2 /\ req[r].sessionId = transports[2].sid
    /\ req[r].transport = transports[2].tr

\* C8: no step of a DELETE request changes the table, and an entry leaves
\* the table only in a step in which the closure callback of its
\* transport fires.
C8_DeleteOnlyForwards ==
  [][/\ \A r \in Reqs :
          (req'[r] # req[r] /\ req'[r].method = "DELETE")
          => transports' = transports
     /\ Keys(transports) \ Keys(transports') \subseteq closedSids']_vars

\* a DELETE was forwarded and answered by the transport, the transport
\* signalled no closure, and the session is still registered
C8_Witness ==
  \E r \in Reqs :
    /\ req[r].method = "DELETE" /\ req[r].pc = "done" /\ req[r].status = 200
    /\ req[r].sessionId \in Keys(transports)
    /\ req[r].sessionId \notin closedSids

\* C9 (as claimed): an exception raised while a request is forwarded to a
\* transport never leaves the handler, whatever the method: it is caught,
\* and answered 500 when no response had been started.
C9_NoExceptionEscapes ==
  \A r \in Reqs :
    IsTransport(req[r].transport) =>
      /\ req[r].result # "unhandled"
      /\ req[r].result = "caught" => req[r].writes = 1

\* C10: a POST gets at most one response; status 500 with code -32603 is
\* there only after a caught failure and is then the only response.
C10_PostSingleResponse ==
  \A r \in Reqs :
    req[r].method = "POST" =>
      /\ req[r].writes <= 1
      /\ req[r].status = 400 => (req[r].body = "jsonrpc-32000" /\ req[r].result = "returned")
      /\ req[r].status = 500 =>
           (req[r].body = "jsonrpc-32603" /\ req[r].result = "caught")
      /\ req[r].result = "caught" => req[r].status \in {200, 500}

\* a POST failed after the transport had started the response: the
\* failure is caught and no 500 is written over it
C10_Witness ==
  \E r \in Reqs :
    /\ req[r].method = "POST" /\ req[r].result = "caught"
    /\ req[r].status = 200 /\ req[r].body = "transport"


\* the members of a sequence
Range(seq) == {seq[i] : i \in DOMAIN seq}

\* how many times the shutdown loop called close() for the key k
CloseCalls(k) == Cardinality({j \in DOMAIN sd.asked : sd.asked[j] = k})

\* C11 (as claimed): when the process has exited, the shutdown loop has
\* called close() exactly once for every session that was in the table
\* when the signal arrived.
C11_CloseAttemptedOnEveryStartSession ==
  sd.phase = "exited" => \A k \in Range(sd.start) : CloseCalls(k) = 1

\* C11 (amended): the loop calls close() at most once per session and only
\* for sessions that were in the table at the signal; every rejected close
\* is logged; and at exit every session of the table at the signal either
\* had its close() called or had been removed by its own closure callback
\* before its turn came - whether or not an earlier close rejected.
C11_CloseAttemptedOnEveryStartSessionStillRegistered ==
  /\ \A k \in Range(sd.asked) : CloseCalls(k) = 1 /\ k \in Range(sd.start)
  /\ sd.failed \subseteq Range(sd.asked)
  /\ sd.phase = "exited" =>
       \A k \in Range(sd.start) : CloseCalls(k) = 1 \/ k \in closedSids

\* the process exited after a loop over two sessions in which the first
\* close rejected and the second session was still asked to close
C11_Witness ==
  /\ sd.phase = "exited"
  /\ Len(sd.start) = 2 /\ sd.asked = sd.start
  /\ sd.start[1] \in sd.failed

\* C12 (as claimed): once the loop has completed, only sessions whose
\* close attempt failed are still registered, and the process has
\* terminated with status 0.
C12_OnlyFailedSessionsRemainAtExit ==
  sd.phase = "exited" =>
    /\ Keys(transports) \subseteq sd.failed
    /\ sd.exitCode = <<0>>

\* C13 (as claimed): a session registered after the signal arrived has
\* been closed (by the loop, or through its closure callback) when the
\* process exits.
C13_LateSessionClosedBeforeExit ==
  sd.phase = "exited" =>
    \A e \in inserted :
      e.sid \notin Range(sd.start) =>
        e.sid \in Range(sd.asked) \cup closedSids

C15_ConcurrentInitsDistinct ==
  /\ [](\A r1, r2 \in Reqs :
          ( /\ r1 # r2 /\ Initializing(req[r1]) /\ Initializing(req[r2]) ) =>
            LET t1 == req[r1].transport
                t2 == req[r2].transport IN
              /\ t1 # t2
              /\ ( /\ transportObjs[t1].sessionId # NoSessionId
                   /\ transportObjs[t2].sessionId # NoSessionId )
                 => transportObjs[t1].sessionId # transportObjs[t2].sessionId
              /\ \A e \in InsertedBy(t1) :
                   e.tr = t1 /\ e.sid = transportObjs[t1].sessionId
              /\ InsertedBy(t1) \cap InsertedBy(t2) = {})
  /\ [][uuids' # uuids =>
          /\ Len(transports') = Len(transports) + 1
          /\ \A i \in DOMAIN transports : transports'[i] = transports[i]]_vars

\* both requests in flight are initializations whose transports were
\* forwarded the request together, and both sessions are now registered
C15_Witness ==
  /\ \A r \in Reqs :
       /\ Initializing(req[r]) /\ req[r].pc = "handleRequest"
       /\ transportObjs[req[r].transport].sessionId # NoSessionId
  /\ Len(transports) = 2

\* ---------------------------------------------------------------- tools
\* a call of the tool on the server has settled
Settled(server, tool) == tc.pc = "done" /\ tc.server = server /\ tc.tool = tool

\* the handler ran and its promise resolved with a result that is no error
Succeeded == tc.result.kind = "returned" /\ ~tc.result.isError
\* the handler ran and its promise resolved with an error-flagged result
ErrorFlagged == tc.result.kind = "returned" /\ tc.result.isError

\* C16 (as claimed): on every server registering get-more-images, a call
\* with a breed string is accepted when count is left out (the handler then
\* gets 3) and when count is an integer in 1..30 (the handler gets it); for
\* any other count it is rejected by the schema with no fetch issued.
C16_CountSchemaOneToThirty ==
  ( /\ tc.pc # "idle" /\ tc.tool = "get-more-images" /\ tc.breed.t = "string" ) =>
    IF tc.c = Omitted
      THEN tc.result.kind # "invalid" /\ tc.count = 3 /\ tc.fetches >= 1
    ELSE IF \E n \in 1..30 : tc.c = Num(2 * n)
      THEN tc.result.kind # "invalid" /\ tc.c = Num(2 * tc.count) /\ tc.fetches >= 1
    ELSE tc.result.kind = "invalid" /\ tc.fetches = 0

\* the payload shape the tool expects
ExpectedShape(tool) ==
  CASE tool \in SingleImageTools -> "string"
    [] tool = "get-more-images" -> "array"
    [] OTHER -> "object"

\* the upstream failed: fetch threw, the body did not parse, the status
\* is not success, or the payload has not the shape the tool expects
UpstreamFailed ==
  \/ tc.u.kind \in {"fetchThrows", "jsonThrows"}
  \/ /\ tc.u.kind = "body"
     /\ \/ tc.u.data.isNull
        \/ tc.u.data.status # "success"
        \/ tc.u.data.message.t # ExpectedShape(tc.tool)

\* C17 (as claimed): for every registered tool and every upstream failure
\* the handler's promise resolves with an error-flagged result.
C17_FailureIsErrorFlaggedResult ==
  ( /\ tc.pc = "done" /\ tc.result.kind # "invalid" /\ UpstreamFailed ) => ErrorFlagged

\* the upstream answered {status: "error"}, or the fetch threw
ErrorStatusOrFetchThrew ==
  \/ tc.u.kind = "fetchThrows"
  \/ tc.u.kind = "body" /\ ~tc.u.data.isNull /\ tc.u.data.status = "error"

\* C18 (as claimed): when the upstream answers {status: "error"} or the
\* fetch throws, show-random-dog-image returns an error-flagged result
\* whose text is a JSON object with a non-empty error field, whatever was
\* thrown.
C18_ErrorFieldNonEmpty ==
  ( /\ Settled("server.ts", "show-random-dog-image") /\ ErrorStatusOrFetchThrew ) =>
    /\ ErrorFlagged
    /\ ErrorFieldOf(tc.result.text) \notin {NotThatObject, <<>>}

\* C18 (amended): in those cases the result is error-flagged and its text
\* is a JSON object with an error field; the field is empty exactly when
\* the fetch threw an Error whose message is empty.
C18_ErrorFieldEmptyOnlyForEmptyMessage ==
  ( /\ Settled("server.ts", "show-random-dog-image") /\ ErrorStatusOrFetchThrew ) =>
    /\ ErrorFlagged
    /\ ErrorFieldOf(tc.result.text) # NotThatObject
    /\ ErrorFieldOf(tc.result.text) = <<>>
         <=> ( /\ tc.u.kind = "fetchThrows" /\ tc.u.thrown.isError
               /\ tc.u.thrown.message = <<>> )

\* the fetch threw an Error whose message has a quote and a backslash in
\* it, and the error field of the result reads back as that message
C18_Witness ==
  /\ Settled("server.ts", "show-random-dog-image")
  /\ tc.u.kind = "fetchThrows" /\ tc.u.thrown = Err(<<"\"", "\\">>)
  /\ ErrorFieldOf(tc.result.text) = <<"\"", "\\">>

\* the fallback string each handler of server.ts passes to createErrorResult
Fallback(tool) ==
  CASE tool = "show-random-dog-image" -> <<"Failed to fetch dog image">>
    [] tool = "show-all-breeds" -> <<"Failed to fetch breeds">>
    [] OTHER -> <<"Failed to fetch images">>

\* C19: every error-flagged result of a tool of server.ts carries no
\* structured payload and a text that is the JSON of an object whose error
\* field reads back as: the thrown Error's message when fetch or the body
\* parser threw an Error; the tool's fallback string when they threw
\* something else; the tool's failure message (the same string) when the
\* success test of the helper failed. And whenever fetch or the parser
\* throws, the result is error-flagged.
C19_ErrorFieldIsMessageOrFallback ==
  ( /\ tc.pc = "done" /\ tc.server = "server.ts" /\ tc.result.kind # "invalid" ) =>
    /\ tc.u.kind \in {"fetchThrows", "jsonThrows"} => ErrorFlagged
    /\ tc.result.kind = "returned"
    /\ tc.result.isError =>
         /\ ~tc.result.hasStructured /\ tc.result.structuredContent = NoFields
         /\ tc.u.kind \in {"fetchThrows", "jsonThrows"} =>
              ErrorFieldOf(tc.result.text) =
                IF tc.u.thrown.isError THEN tc.u.thrown.message ELSE Fallback(tc.tool)
         /\ ( /\ tc.u.kind = "body" /\ ~tc.u.data.isNull
              /\ tc.u.data.status # "success" ) =>
              ErrorFieldOf(tc.result.text) = Fallback(tc.tool)

\* the body parser threw something that is no Error, and get-more-images
\* answered with its fallback string
C19_Witness ==
  /\ Settled("server.ts", "get-more-images")
  /\ tc.u.kind = "jsonThrows" /\ ~tc.u.thrown.isError
  /\ tc.result.isError
  /\ ErrorFieldOf(tc.result.text) = <<"Failed to fetch images">>

\* C20: a successful show-random-dog-image result carries the upstream URL
\* as message and, as breed, the fifth of the segments the URL was joined
\* from with "/" (index 4), undefined when there are fewer; so "hound" for
\* https://x/breed/hound/9.jpg, and <name> for scheme://host/<seg>/<name>/<file>.
C20_BreedIsFifthSegment ==
  ( /\ Settled("server.ts", "show-random-dog-image") /\ Succeeded ) =>
    /\ tc.u.kind = "body" /\ tc.u.data.status = "success"
    /\ tc.result.hasStructured
    /\ tc.result.structuredContent.message = Str(Join(tc.u.segs, "/"))
    /\ tc.result.structuredContent.breed =
         IF Len(tc.u.segs) >= 5 THEN Str(tc.u.segs[5]) ELSE Undef
    /\ tc.u.segs = ExampleSegs => tc.result.structuredContent.breed = Str(<<"hound">>)

\* the upstream answered success with https://x/breed/hound/9.jpg and the
\* result's breed is "hound"
C20_Witness ==
  /\ Settled("server.ts", "show-random-dog-image") /\ Succeeded
  /\ tc.u.data.message = Str(ExampleUrl)
  /\ tc.result.structuredContent.breed = Str(<<"hound">>)

\* JSON.stringify of a structured payload (its members in the order the
\* handlers write them)
StructuredJson(f) ==
  JsonObject(Member("message", f.message) \o Member("breed", f.breed)
             \o Member("status", f.status) \o Member("breeds", f.breeds)
             \o Member("images", f.images))

\* C21 (as claimed): the text of every successful result of a tool of
\* server.ts is the JSON serialization of its structured payload.
C21_TextEchoesStructured ==
  ( /\ tc.pc = "done" /\ tc.server = "server.ts" /\ Succeeded ) =>
    tc.result.text = StructuredJson(tc.result.structuredContent)

\* a payload that is not empty
NonEmpty(v) ==
  CASE v.t = "string" -> v.s # <<>>
    [] v.t \in {"array", "object"} -> v.items # <<>>
    [] OTHER -> FALSE

\* C22 (as claimed): a tool of server.ts succeeds only if the upstream
\* body has status "success" and a non-empty payload of the shape the tool
\* expects; with any other body the result is error-flagged.
C22_SuccessOnlyForExpectedPayload ==
  ( /\ tc.pc = "done" /\ tc.server = "server.ts" /\ tc.result.kind # "invalid" ) =>
    IF /\ tc.u.kind = "body" /\ ~tc.u.data.isNull
       /\ tc.u.data.status = "success"
       /\ tc.u.data.message.t = ExpectedShape(tc.tool)
       /\ NonEmpty(tc.u.data.message)
      THEN TRUE
      ELSE ErrorFlagged

\* C23: a tool call issues at most one fetch, and issues it when the
\* handler is entered and at no later step; when the fetch or the body
\* parser throws, or the body's status is not "success", a tool of server.ts
\* has settled in that very step with an error-flagged result after its one
\* fetch.
C23_AtMostOneFetch ==
  /\ [](/\ tc.fetches <= 1
        /\ tc.pc \in {"fetch", "json"} => tc.fetches = 1
        /\ ( /\ tc.server = "server.ts"
             /\ \/ tc.u.kind \in {"fetchThrows", "jsonThrows"}
                \/ tc.u.kind = "body" /\ ~tc.u.data.isNull
                   /\ tc.u.data.status # "success" )
           => ( tc.pc = "done" /\ ErrorFlagged /\ tc.fetches = 1 ))
  /\ [][tc'.fetches # tc.fetches => tc.pc \in {"idle", "done"}]_vars

\* the upstream answered {status: "error"} to get-more-images and the call
\* has settled, error-flagged, after one fetch
C23_Witness ==
  /\ Settled("server.ts", "get-more-images") /\ ErrorFlagged
  /\ tc.u.kind = "body" /\ tc.u.data.status = "error"
  /\ tc.fetches = 1

\* ------------------------------------------------------------ resources
\* What getServer() does with the widget bundles.  The content of a file is
\* the pair (name, build): readFile resolves with what dist/ holds at the
\* time of the call.

\* The two resources getServer registers: uri, MIME type, and the bundle
\* whose content is handed to registerResource.
Resources ==
  { [uri |-> "ui://show-random-dog-image", mimeType |-> "text/html+mcp",
     bundle |-> "show-dog-image"],
    [uri |-> "ui://show-all-breeds", mimeType |-> "text/html+mcp",
     bundle |-> "show-all-breeds"] }

\* loadHtml(name): fs.readFile(dist/<name>.html)
loadHtml(name) == [name |-> name, version |-> html.disk[name]]

\* The read callback registerResource installs: the resource's own uri and
\* MIME type, and the htmlContent captured at registration.
registerResource(resource, htmlContent) ==
  [uri |-> resource.uri, mimeType |-> resource.mimeType, text |-> htmlContent]

\* getServer(): one McpServer, both bundles read, both resources registered
GetServer ==
  /\ html.loads < 2 * MaxServers
  /\ html' = [html EXCEPT
       !.loads = @ + 2,
       !.servers = Append(@, [b \in Bundles |-> loadHtml(b)])]
  /\ UNCHANGED <<routerVars, tc, w>>

\* getServer() when a readFile rejects: Promise.all rejects, no server
GetServerRejects ==
  /\ html.loads < 2 * MaxServers
  /\ html' = [html EXCEPT !.loads = @ + 2]
  /\ UNCHANGED <<routerVars, tc, w>>

\* dist/<b>.html is rebuilt while the process runs
DistRebuilt(b) ==
  /\ html.disk[b] < MaxVersions
  /\ html' = [html EXCEPT !.disk[b] = @ + 1]
  /\ UNCHANGED <<routerVars, tc, w>>

\* resources/read of one resource on the i-th server instance
ReadResource(i, resource) ==
  /\ i \in 1..Len(html.servers)
  /\ html' = [html EXCEPT !.reads =
       @ \cup {registerResource(resource, html.servers[i][resource.bundle])}]
  /\ UNCHANGED <<routerVars, tc, w>>

ResourceNext ==
  \/ GetServer
  \/ GetServerRejects
  \/ \E b \in Bundles : DistRebuilt(b)
  \/ \E i \in 1..MaxServers, resource \in Resources : ReadResource(i, resource)

ResourceSpec == Init /\ [][ResourceNext]_vars

\* C24: the bundles are read from disk at most once each, every read of a
\* resource returns the same content whatever the session, and the MIME type
\* of every result is text/html+mcp.
C24_HtmlLoadedOnce ==
  /\ html.loads <= Cardinality(Bundles)
  /\ \A r1, r2 \in html.reads : r1.uri = r2.uri => r1.text = r2.text
  /\ \A r \in html.reads : r.mimeType = "text/html+mcp"

\* What does hold: the MIME type, and that one server instance returns for
\* a uri the content it read when it was created.
C24_ReadsAreRegisteredContent ==
  \A r \in html.reads :
    /\ r.mimeType = "text/html+mcp"
    /\ \E i \in 1..Len(html.servers), resource \in Resources :
         r.uri = resource.uri /\ r.text = html.servers[i][resource.bundle]


\* ------------------------------------------------ the table, continued
\* a request that names its session: POST with a session header, GET, DELETE
Continuation(q) ==
  \/ q.method \in {"GET", "DELETE"}
  \/ q.method = "POST" /\ TruthyString(q.sessionId)

\* the handler of r calls transport.handleRequest in this step
Forwarded(r) == req[r].pc # "handleRequest" /\ req'[r].pc = "handleRequest"

\* C25: whenever a continuation request is forwarded, the table at that
\* instant maps the request's session identifier to the transport it is
\* forwarded to: the entry was inserted by that transport's readiness
\* callback, its closure callback has not fired, and the step leaves the
\* table as it is.
C25_ForwardedOnlyWhileRegistered ==
  [][\A r \in Reqs :
       (Forwarded(r) /\ Continuation(req'[r]))
       => /\ TruthyString(req'[r].sessionId)
          /\ IsTransport(req'[r].transport)
          /\ \E i \in DOMAIN transports :
               /\ transports[i].sid = req'[r].sessionId
               /\ transports[i].tr = req'[r].transport
          /\ \E e \in inserted :
               e.sid = req'[r].sessionId /\ e.tr = req'[r].transport
          /\ req'[r].sessionId \notin closedSids
          /\ ~req'[r].afterClose
          /\ transports' = transports]_vars

\* a DELETE for the second of two registered sessions is being forwarded
C25_Witness ==
  \E r \in Reqs :
    /\ req[r].method = "DELETE" /\ req[r].pc = "handleRequest"
    /\ Len(transports) = 2 /\ req[r].sessionId = transports[2].sid
    /\ req[r].transport = transports[2].tr

\* C26: a step changes at most one entry of the table. An entry that
\* appears is keyed by the identifier its own transport has just been
\* given, under a key the table did not hold, and was put there by that
\* transport's callback; an entry that goes is keyed by its own transport's
\* identifier and goes in a step in which that transport's closure
\* callback fires; no key is ever moved to another transport.  So every
\* entry of another session is left as it was.
C26_OtherSessionsUntouched ==
  [][LET added == Entries(transports') \ Entries(transports)
         removed == Entries(transports) \ Entries(transports') IN
     /\ Cardinality(added \cup removed) <= 1
     /\ \A e \in added :
          /\ transportObjs[e.tr].sessionId = NoSessionId
          /\ transportObjs'[e.tr].sessionId = e.sid
          /\ e.sid \notin Keys(transports)
          /\ [sid |-> e.sid, tr |-> e.tr, by |-> e.tr] \in inserted' \ inserted
     /\ \A e \in removed :
          /\ transportObjs[e.tr].sessionId = e.sid
          /\ e.sid \in closedSids' \ closedSids
          /\ e.sid \notin Keys(transports')
     /\ \A e \in Entries(transports) \cap Entries(transports') :
          transportObjs'[e.tr].sessionId = transportObjs[e.tr].sessionId]_vars

\* two sessions were registered; one was closed and removed, and the other
\* is still in the table under its own identifier
C26_Witness ==
  /\ Len(transports) = 1
  /\ Cardinality(closedSids) = 1
  /\ Cardinality({e.tr : e \in inserted}) = 2
  /\ transportObjs[transports[1].tr].sessionId = transports[1].sid

\* C27: each entry's key is the sessionId of the transport stored under it,
\* no transport is stored under two keys, no identifier whose entry was
\* removed is in the table, and no step puts back a key that was removed
\* earlier (every key that leaves the table is recorded as closed, and
\* stays so).
C27_KeyIsOwnSessionIdNeverReinserted ==
  /\ [](/\ \A i \in DOMAIN transports :
             transports[i].sid = transportObjs[transports[i].tr].sessionId
        /\ \A i, j \in DOMAIN transports :
             transports[i].tr = transports[j].tr => i = j
        /\ closedSids \cap Keys(transports) = {})
  /\ [][/\ Keys(transports) \ Keys(transports') \subseteq closedSids'
        /\ closedSids \subseteq closedSids'
        /\ (Keys(transports') \ Keys(transports)) \cap closedSids = {}]_vars

\* a session was closed and removed, and a session created after it is
\* registered under a different identifier
C27_Witness ==
  /\ Len(transports) = 1
  /\ closedSids # {}
  /\ \E e \in inserted :
       /\ e.sid \in closedSids
       /\ e.tr < transports[1].tr
       /\ e.sid # transports[1].sid


\* ========================================================= the widgets
Apps == {"ShowDogImageApp", "DogImageViewApp"}
Breeds == {"hound", "pug"}
Url == "url"

\* ---- tool results the host delivers: their structuredContent
NoStructured == [present |-> FALSE, message |-> NoUrl, breed |-> NoBreed]
Structured(message, breed) == [present |-> TRUE, message |-> message, breed |-> breed]
ToolResults ==
  {NoStructured} \cup
  {Structured(m, b) : m \in {NoUrl, Url}, b \in Breeds \cup {NoBreed}}

\* ---- how `await app.callServerTool(...)` settles: the promise rejects, or
\* resolves with a result: isError, a structuredContent object (with or
\* without `images`) or none, and a text content item that holds JSON with
\* `images`, JSON without it, no JSON at all, or no text item; n images.
CallServerToolRejects == [kind |-> "rejected", isError |-> FALSE, structured |-> "absent",
                 text |-> "absent", n |-> 0]
CallServerToolResolves(isError, structured, text, n) ==
  [kind |-> "result", isError |-> isError, structured |-> structured,
   text |-> text, n |-> n]
Outcomes ==
  {CallServerToolRejects} \cup
  {CallServerToolResolves(e, sc, t, n) :
     e \in BOOLEAN, sc \in {"absent", "images", "noImages"},
     t \in {"absent", "images", "noImages", "unparsable"}, n \in 0..MaxImages}

\* n images of the breed b
Images(n, b) == [i \in 1..n |-> b]

\* extractImages(result) of dog-image-view.tsx: how many images it returns
extractImages(o) ==
  IF o.structured # "absent"
    THEN (IF o.structured = "images" THEN o.n ELSE 0)
    ELSE IF o.text = "images" THEN o.n ELSE 0

\* the inline extraction of show-dog-image.tsx: JSON.parse is not guarded
ImagesData(o) ==
  IF o.structured # "absent"
    THEN [threw |-> FALSE, n |-> IF o.structured = "images" THEN o.n ELSE 0]
    ELSE IF o.text = "unparsable" THEN [threw |-> TRUE, n |-> 0]
    ELSE [threw |-> FALSE, n |-> IF o.text = "images" THEN o.n ELSE 0]

\* imageCount as the component holds it after moreImages became imgs
CountFor(app, imgs, count) == IF app = "DogImageViewApp" THEN Len(imgs) ELSE count

ontoolresult_keepsCount(ws, sc) ==
  IF ~sc.present THEN ws
  ELSE [ws EXCEPT !.dogImageUrl = sc.message, !.dogBreed = sc.breed,
                  !.moreImages = <<>>, !.hasFetchedMoreImages = FALSE]
\* app.ontoolresult: a result without structuredContent makes the first
\* property read throw before any setter ran
ontoolresult(ws, sc) ==
  IF ~sc.present THEN ws
  ELSE IF ws.app = "ShowDogImageApp"
    THEN [ws EXCEPT !.dogImageUrl = sc.message, !.dogBreed = sc.breed,
                    !.moreImages = <<>>, !.hasFetchedMoreImages = FALSE,
                    !.imageCount = 0]
  ELSE IF sc.message # NoUrl /\ sc.breed # NoBreed
    THEN [ws EXCEPT !.dogImageUrl = sc.message, !.dogBreed = sc.breed,
                    !.moreImages = <<>>, !.hasFetchedMoreImages = FALSE,
                    !.imageCount = 0]
  ELSE ws

\* the catch block of handleGetMoreImages (and finally, where there is one)
MoreImagesFailed(ws) ==
  [ws EXCEPT !.loadingMoreImages = FALSE, !.hasFetchedMoreImages = TRUE,
             !.call = NoBreed]

\* the two functional updates, and the flags
MoreImagesAppended(ws, n) ==
  [ws EXCEPT !.moreImages = @ \o Images(n, ws.call),
             !.imageCount = CountFor(ws.app, ws.moreImages \o Images(n, ws.call),
                                     @ + n),
             !.loadingMoreImages = FALSE, !.hasFetchedMoreImages = TRUE,
             !.call = NoBreed]

handleGetMoreImages_errorStaysLoading(ws, o) ==
  IF o.kind = "rejected" THEN MoreImagesFailed(ws)
  ELSE IF o.isError THEN [ws EXCEPT !.hasFetchedMoreImages = TRUE, !.call = NoBreed]
  ELSE MoreImagesAppended(ws, extractImages(o))
\* handleGetMoreImages from its await on
handleGetMoreImages(ws, o) ==
  IF o.kind = "rejected" THEN MoreImagesFailed(ws)
  ELSE IF o.isError THEN MoreImagesFailed(ws)
  ELSE IF ws.app = "DogImageViewApp" THEN MoreImagesAppended(ws, extractImages(o))
  ELSE IF ImagesData(o).threw THEN MoreImagesFailed(ws)
  ELSE MoreImagesAppended(ws, ImagesData(o).n)

\* ---- actions
\* createRoot(root).render(<App />), and the app connects to the host
Mount(a) ==
  /\ w = Unmounted
  /\ w' = [Unmounted EXCEPT !.app = a]
  /\ UNCHANGED <<routerVars, tc, html>>

\* the host delivers a tool result
ToolResultArrives(sc) ==
  /\ w.app \in Apps
  /\ w' = ontoolresult(w, sc)
  /\ UNCHANGED <<routerVars, tc, html>>

\* A click on the button: it is rendered once an image and a breed are
\* shown and is disabled while loading. handleGetMoreImages(dogBreed) runs
\* to its await.
ClickGetMoreImages ==
  /\ w.app \in Apps
  /\ w.dogImageUrl # NoUrl /\ w.dogBreed # NoBreed
  /\ ~w.loadingMoreImages
  /\ Len(w.moreImages) + MaxImages <= MaxShown
  /\ w' = [w EXCEPT !.loadingMoreImages = TRUE, !.call = w.dogBreed]
  /\ UNCHANGED <<routerVars, tc, html>>

\* callServerTool settles and the handler runs to its end
CallSettles(o) ==
  /\ w.call # NoBreed
  /\ w' = handleGetMoreImages(w, o)
  /\ UNCHANGED <<routerVars, tc, html>>

WidgetNext ==
  \/ \E a \in Apps : Mount(a)
  \/ \E sc \in ToolResults : ToolResultArrives(sc)
  \/ ClickGetMoreImages
  \/ \E o \in Outcomes : CallSettles(o)

WidgetSpec == Init /\ [][WidgetNext]_vars

\* The host answers every callServerTool request, with a result or an
\* error: a pending call settles.
WidgetFairSpec == WidgetSpec /\ WF_vars(\E o \in Outcomes : CallSettles(o))

\* C28: the widget is loading exactly while a call is pending; the step in
\* which the call settles, whatever the outcome, leaves loadingMoreImages
\* false and hasFetchedMoreImages true; and a widget that is loading
\* reaches such a state.
C28_LoadingAlwaysEnds ==
  /\ [](w.loadingMoreImages <=> w.call # NoBreed)
  /\ [][(w.call # NoBreed /\ w'.call = NoBreed)
        => (~w'.loadingMoreImages /\ w'.hasFetchedMoreImages)]_vars
  /\ (w.loadingMoreImages ~> (~w.loadingMoreImages /\ w.hasFetchedMoreImages))

\* a call has settled without adding an image: the widget is out of the
\* loading state and shows that it has fetched
C28_Witness ==
  /\ w.app \in Apps
  /\ w.hasFetchedMoreImages /\ ~w.loadingMoreImages
  /\ w.moreImages = <<>> /\ w.call = NoBreed

\* C29: every image in moreImages was fetched for the breed now displayed.
C29_OnlyCurrentBreedImages ==
  \A i \in DOMAIN w.moreImages : w.moreImages[i] = w.dogBreed

\* C30: in ShowDogImageApp imageCount is the length of moreImages.
C30_ImageCountIsLength ==
  w.app = "ShowDogImageApp" => w.imageCount = Len(w.moreImages)

\* two responses were appended and a third call is pending
C30_Witness ==
  /\ w.app = "ShowDogImageApp"
  /\ w.imageCount = MaxImages + 1 /\ Len(w.moreImages) = MaxImages + 1
  /\ w.hasFetchedMoreImages

====
